---------------------------- MODULE Spec2Model ----------------------------
(***************************************************************************)
(* A model of extensions_built_in/advanced_generator/Img2ImgGenerator.py:  *)
(* Img2ImgGenerator.run() as a state machine over a small file system,     *)
(* with the path, caption and tensor helpers it calls as operators.        *)
(*                                                                         *)
(* Text (paths, captions, extensions) is a sequence of one-character       *)
(* strings, so that basename, splitext, join, dirname and str.replace are  *)
(* computed character by character as the library computes them.           *)
(* Tensor values are exact multiples of 1/Den.                             *)
(***************************************************************************)
EXTENDS Integers, Sequences, FiniteSets, TLC

VARIABLES
    output_folder,              \* self.output_folder                 (line 51)
    copy_inputs_to,             \* self.copy_inputs_to, or None       (line 52)
    model_config,               \* self.model_config: [is_xl]         (line 54)
    generate_config,            \* self.generate_config: [ext, trigger_word]
    datasets,                   \* the items the data loader yields, in order
    pc,                         \* position of run()
    sd,                         \* self.sd: "constructed", "loaded" or "deleted"
    pipe,                       \* the pipeline object exists
    data_loader,                \* self.data_loader (None before line 124)
    i,                          \* number of batches requested from the loader
    batch,                      \* the batch in flight, or NoBatch
    loc,                        \* the loop body's local variables
    pbar,                       \* progress count
    files,                      \* file system: path -> content
    dirs,                       \* file system: the directories that exist
    err,                        \* the exception that ended run(), or None
    log,                        \* history: the operations run() performed
    at_batch_start              \* history: files when the current batch was requested

vars == << output_folder, copy_inputs_to, model_config, generate_config, datasets,
           pc, sd, pipe, data_loader, i, batch, loc, pbar, files, dirs, err, log,
           at_batch_start >>

-----------------------------------------------------------------------------
(* Bounds of the model *)

\* at most this many items in the data loader
MaxItems == 2
\* source paths of the path profile have at most this many characters
MaxPathLen == 4
\* captions of the caption profile are made of at most this many fragments
MaxFragments == 3
\* tensor values of the tensor profile are n/Den for n in -TensorRange..TensorRange
TensorRange == 5

-----------------------------------------------------------------------------
(* Values *)

\* Python's None, comparable with text
None == << "None" >>

\* denominator of the tensor values: a value v stands for v/Den
Den == 4

\* the literal replaced at line 150
PLACEHOLDER == << "[", "t", "r", "i", "g", "g", "e", "r", "]" >>

TXT == << ".", "t", "x", "t" >>

NoImage == [origin |-> "none", pixels |-> << >>, prompt |-> << >>]

NoBatch == [path |-> << >>, caption |-> << >>, tensor |-> << >>, released |-> 0]

NoLocals ==
    [output_path |-> None, output_caption_path |-> None,
     output_inputs_path |-> None, output_inputs_caption_path |-> None,
     caption |-> None, image |-> NoImage, gen_images |-> NoImage]

ImageFile(img) == [kind |-> "image", image |-> img, text |-> << >>]

TextFile(t) == [kind |-> "text", image |-> NoImage, text |-> t]

NoContent == [kind |-> "none", image |-> NoImage, text |-> << >>]

\* what a write that failed after opening its file leaves behind
PartialFile == [kind |-> "partial", image |-> NoImage, text |-> << >>]

-----------------------------------------------------------------------------
(* Text helpers *)

Max(S) == CHOOSE x \in S : \A y \in S : y <= x

\* str.rfind for one character, 1-based; 0 when absent (Python: -1)
RFind(s, c) == Max({0} \cup {k \in 1..Len(s) : s[k] = c})

StartsWith(s, p) == Len(p) <= Len(s) /\ SubSeq(s, 1, Len(p)) = p

RECURSIVE RStrip(_, _)
\* str.rstrip(c)
RStrip(s, c) ==
    IF s # << >> /\ s[Len(s)] = c THEN RStrip(SubSeq(s, 1, Len(s) - 1), c) ELSE s

\* posixpath.basename
basename(p) == SubSeq(p, RFind(p, "/") + 1, Len(p))

\* posixpath.dirname
dirname(p) ==
    LET head == SubSeq(p, 1, RFind(p, "/"))
    IN  IF head # << >> /\ \E k \in 1..Len(head) : head[k] # "/"
        THEN RStrip(head, "/")
        ELSE head

\* posixpath.join of two components
join(a, b) ==
    IF StartsWith(b, << "/" >>) THEN b
    ELSE IF a = << >> \/ a[Len(a)] = "/" THEN a \o b
    ELSE a \o << "/" >> \o b

\* SplitextScan, had the dots a name begins with been taken for an extension
SplitextAtLastDot(p, filenameIndex, dotIndex) ==
    << SubSeq(p, 1, dotIndex - 1), SubSeq(p, dotIndex, Len(p)) >>

RECURSIVE SplitextScan(_, _, _)
\* the loop of genericpath._splitext that skips the leading dots of the name
SplitextScan(p, filenameIndex, dotIndex) ==
    IF filenameIndex < dotIndex
    THEN IF p[filenameIndex] # "."
         THEN << SubSeq(p, 1, dotIndex - 1), SubSeq(p, dotIndex, Len(p)) >>
         ELSE SplitextScan(p, filenameIndex + 1, dotIndex)
    ELSE << p, << >> >>

\* posixpath.splitext: << root, ext >>
splitext(p) ==
    LET sepIndex == RFind(p, "/")
        dotIndex == RFind(p, ".")
    IN  IF dotIndex > sepIndex
        THEN SplitextScan(p, sepIndex + 1, dotIndex)
        ELSE << p, << >> >>

\* Replace, had only the first occurrence been replaced (str.replace(old, new, 1))
ReplaceFirst(s, old, new) ==
    IF \E k \in 1..(Len(s) - Len(old) + 1) : SubSeq(s, k, k + Len(old) - 1) = old
    THEN LET k == CHOOSE k \in 1..(Len(s) - Len(old) + 1) :
                      /\ SubSeq(s, k, k + Len(old) - 1) = old
                      /\ \A j \in 1..(k - 1) : SubSeq(s, j, j + Len(old) - 1) # old
         IN  SubSeq(s, 1, k - 1) \o new \o SubSeq(s, k + Len(old), Len(s))
    ELSE s

RECURSIVE Replace(_, _, _)
\* str.replace(old, new) for a non-empty old: left to right, non-overlapping
Replace(s, old, new) ==
    IF Len(s) < Len(old) THEN s
    ELSE IF SubSeq(s, 1, Len(old)) = old
         THEN new \o Replace(SubSeq(s, Len(old) + 1, Len(s)), old, new)
         ELSE << s[1] >> \o Replace(Tail(s), old, new)


-----------------------------------------------------------------------------
(* Tensor -> image, lines 90-97 *)

\* line 92, (img + 1) / 2: the value v/Den becomes Rescale(v)/(2*Den)
Rescale(v) == v + Den

\* line 93, clamp(0, 1), on the numerator over 2*Den
Clamp01(n) == IF n < 0 THEN 0 ELSE IF n > 2 * Den THEN 2 * Den ELSE n

\* AsUint8, had the value been rounded to the nearest integer
AsUint8Rounded(n) == ((2 * n * 255 + 2 * Den) \div (4 * Den)) % 256

\* line 95, (img * 255).astype(np.uint8): the fraction is dropped, 8 bits are kept
AsUint8(n) == ((n * 255) \div (2 * Den)) % 256

\* line 94, img[0].permute(1, 2, 0): channel-first [c][h][w] to [h][w][c]
Permute120(t) ==
    [h \in DOMAIN t[1] |-> [w \in DOMAIN t[1][1] |-> [c \in DOMAIN t |-> t[c][h][w]]]]

\* to_pil(img), img of shape [1][channel][row][column]
to_pil(img) ==
    LET scaled  == [b \in DOMAIN img |-> [c \in DOMAIN img[b] |->
                     [h \in DOMAIN img[b][c] |-> [w \in DOMAIN img[b][c][h] |->
                        Clamp01(Rescale(img[b][c][h][w]))]]]]
        hwc     == Permute120(scaled[1])
        bytes   == [h \in DOMAIN hwc |-> [w \in DOMAIN hwc[h] |->
                     [c \in DOMAIN hwc[h][w] |-> AsUint8(hwc[h][w][c])]]]
    IN  [origin |-> "to_pil", pixels |-> bytes, prompt |-> << >>]

\* pipe.__call__(prompt=caption, image=image, ...).images[0], lines 159-166:
\* the library's output, known only by what it was computed from
PipeCallResult(prompt, image) ==
    [origin |-> "pipe", pixels |-> image.pixels, prompt |-> prompt]

-----------------------------------------------------------------------------
(* The loop body's pure steps, lines 133-150 *)

\* img_filename_no_ext, had the directory part of the source path been kept
NoExtOfWholePath(img_path) == splitext(img_path)[1]

\* lines 135-136
img_filename_no_ext(img_path) == splitext(basename(img_path))[1]

\* lines 137-138
OutputPath(folder, img_path, ext) ==
    join(folder, img_filename_no_ext(img_path) \o << "." >> \o ext)

\* line 139 (and 143)
OutputCaptionPath(folder, img_path) ==
    join(folder, img_filename_no_ext(img_path) \o TXT)

\* lines 141-146: the mirrored image path, or None
OutputInputsPath(copy_to, img_path, ext) ==
    IF copy_to # None THEN OutputPath(copy_to, img_path, ext) ELSE None

\* lines 141-146: the mirrored caption path, or None
OutputInputsCaptionPath(copy_to, img_path) ==
    IF copy_to # None THEN OutputCaptionPath(copy_to, img_path) ELSE None

\* lines 148-150
SubstituteTrigger(caption, trigger_word) ==
    IF trigger_word # None THEN Replace(caption, PLACEHOLDER, trigger_word) ELSE caption

-----------------------------------------------------------------------------
(* File system *)

\* posixpath.split: << head, tail >>
split(p) ==
    LET k    == RFind(p, "/")
        head == SubSeq(p, 1, k)
    IN  << IF head # << >> /\ \E j \in 1..Len(head) : head[j] # "/"
           THEN RStrip(head, "/") ELSE head,
           SubSeq(p, k + 1, Len(p)) >>

RECURSIVE makedirs(_, _)
\* os.makedirs(name, exist_ok=True) on the set ds of existing directories
makedirs(ds, name) ==
    LET s0   == split(name)
        s    == IF s0[2] = << >> THEN split(s0[1]) ELSE s0
        head == s[1]
        tail == s[2]
        ds1  == IF head # << >> /\ tail # << >> /\ head \notin ds
                THEN makedirs(ds, head) ELSE ds
    IN  IF tail = << "." >> /\ ds1 # ds THEN ds1 ELSE ds1 \cup {name}

\* the directories a makedirs that fails part-way may already have made:
\* the n shortest of those missing
PartlyMade(ds, name, n) ==
    LET missing == makedirs(ds, name) \ ds
    IN  {d \in missing : Cardinality({e \in missing : Len(e) <= Len(d)}) <= n}

\* some directory on the way to name is a file: os.makedirs raises
BlockedByFile(fs, name) ==
    \E f \in DOMAIN fs : f = name \/ StartsWith(name, f \o << "/" >>)

\* the file system after path gets content
Put(fs, path, content) ==
    [q \in DOMAIN fs \cup {path} |-> IF q = path THEN content ELSE fs[q]]

\* a history entry for an operation that wrote nothing
Logged(op, path) ==
    Append(log, [op |-> op, item |-> i, path |-> path, data |-> NoContent])

\* a history entry for a completed write of content to path
Wrote(op, path, content) ==
    Append(log, [op |-> op, item |-> i, path |-> path, data |-> content])

-----------------------------------------------------------------------------
(* The runs explored: configurations and data-loader contents *)

\* all sequences over S of length 0..n
SeqsUpTo(S, n) == UNION {[1..k -> S] : k \in 0..n}

RECURSIVE Flatten(_)
Flatten(ss) == IF ss = << >> THEN << >> ELSE Head(ss) \o Flatten(Tail(ss))

\* a tensor of shape [1][3][1][1]
Tensor3(r, g, b) == << << << << r >> >>, << << g >> >>, << << b >> >> >> >>

PNG == << "p", "n", "g" >>

JPG == << "j", "p", "g" >>

FolderO == << "o" >>

FolderPO == << "p", "/", "o" >>

FolderC == << "c" >>

DatasetItem(path, caption, tensor) ==
    [path |-> path, caption |-> caption, tensor |-> tensor]

\* three files of a dataset; the first two share the stem k
KnownItems ==
    { DatasetItem(<< "a", "/", "k", ".", "j" >>, PLACEHOLDER \o << "1" >>, Tensor3(0, 0, 0)),
      DatasetItem(<< "b", "/", "k", ".", "g" >>, << "2" >>, Tensor3(Den, 0, 0)),
      DatasetItem(<< "d", ".", "j" >>, << "3" >>, Tensor3(0, 0, -Den)) }

\* paths of files: the name is not empty, "." or ".."
FilePaths ==
    {q \in SeqsUpTo({"/", ".", "a"}, MaxPathLen) :
        basename(q) \notin {<< >>, << "." >>, << ".", "." >>}}

CaptionFragments == {PLACEHOLDER, << "a" >>, << "[", "t" >>, << "g", "e", "r", "]" >>}

Captions == {Flatten(fs) : fs \in SeqsUpTo(CaptionFragments, MaxFragments)}

TriggerWords ==
    {None, << >>, << "r", "i", "g" >>, PLACEHOLDER, << "o", "r", "a", "n", "g", "e" >>}

TensorValues == (0 - TensorRange)..TensorRange

\* several different items, every combination of the folders
InitFolders ==
    /\ output_folder \in {FolderO, FolderPO}
    /\ copy_inputs_to \in {None, FolderO, FolderC}
    /\ model_config \in {[is_xl |-> TRUE], [is_xl |-> FALSE]}
    /\ generate_config \in
         {[ext |-> e, trigger_word |-> w] : e \in {PNG, JPG}, w \in {None, << "w" >>}}
    /\ datasets \in {ds \in SeqsUpTo(KnownItems, MaxItems) :
                        \A j, k \in 1..Len(ds) : ds[j] = ds[k] => j = k}

\* one item, every source path
InitPaths ==
    /\ output_folder = FolderO
    /\ copy_inputs_to = None
    /\ model_config = [is_xl |-> TRUE]
    /\ generate_config \in {[ext |-> e, trigger_word |-> None] : e \in {PNG, JPG}}
    /\ \E q \in FilePaths : datasets = << DatasetItem(q, << "c" >>, Tensor3(0, 0, 0)) >>

\* one item, every caption and trigger word
InitCaptions ==
    /\ output_folder = FolderO
    /\ copy_inputs_to = None
    /\ model_config = [is_xl |-> TRUE]
    /\ generate_config \in {[ext |-> PNG, trigger_word |-> w] : w \in TriggerWords}
    /\ \E c \in Captions :
          datasets = << DatasetItem(<< "a", ".", "j" >>, c, Tensor3(0, 0, 0)) >>

\* one item, every tensor
InitTensors ==
    /\ output_folder = FolderO
    /\ copy_inputs_to = FolderC
    /\ model_config = [is_xl |-> TRUE]
    /\ generate_config = [ext |-> PNG, trigger_word |-> None]
    /\ \E r, g, b \in TensorValues :
          datasets = << DatasetItem(<< "a", ".", "j" >>, << "c" >>, Tensor3(r, g, b)) >>

\* the state after __init__ (lines 49-88), in an empty working directory
Init ==
    /\ InitFolders \/ InitPaths \/ InitCaptions \/ InitTensors
    /\ pc = "load_model"
    /\ sd = "constructed"
    /\ pipe = FALSE
    /\ data_loader = None
    /\ i = 0
    /\ batch = NoBatch
    /\ loc = NoLocals
    /\ pbar = 0
    /\ files = << >>
    /\ dirs = {}
    /\ err = None
    /\ log = << >>
    /\ at_batch_start = << >>

config == << output_folder, copy_inputs_to, model_config, generate_config, datasets >>

-----------------------------------------------------------------------------
(* run(), lines 99-188 *)

\* Propagate, had the cleanup of lines 186-188 been in a finally clause
PropagateWithCleanup(exception) ==
    /\ err' = << exception, pc >>
    /\ pc' = "aborted"
    /\ sd' = "deleted"
    /\ log' = Logged("cleanup", None)
    /\ UNCHANGED << config, pipe, data_loader, i, batch, loc, pbar, at_batch_start >>

\* what run() does when the step at pc raises: no handler, no finally (lines 99-188)
Propagate(exception) ==
    /\ err' = << exception, pc >>
    /\ pc' = "aborted"
    /\ UNCHANGED << config, sd, pipe, data_loader, i, batch, loc, pbar, log,
                    at_batch_start >>

\* LoadModel, had the architecture been checked when the model is loaded
LoadModelRejectsNonXL ==
    /\ pc = "load_model"
    /\ IF model_config.is_xl
       THEN /\ sd' = "loaded"
            /\ log' = Logged("load_model", None)
            /\ pc' = "assemble"
            /\ UNCHANGED << config, pipe, data_loader, i, batch, loc, pbar, err,
                            at_batch_start >>
       ELSE Propagate("NotImplementedError")
    /\ UNCHANGED << files, dirs >>

\* line 103: self.sd.load_model()
LoadModel ==
    /\ pc = "load_model"
    /\ sd' = "loaded"
    /\ log' = Logged("load_model", None)
    /\ pc' = "assemble"
    /\ UNCHANGED << config, pipe, data_loader, i, batch, loc, pbar, files, dirs, err,
                    at_batch_start >>

\* lines 107-116 and 119: the XL pipeline is assembled
AssemblePipeline ==
    /\ pc = "assemble"
    /\ model_config.is_xl
    /\ pipe' = TRUE
    /\ log' = Logged("assemble", None)
    /\ pc' = "get_dataloader"
    /\ UNCHANGED << config, sd, data_loader, i, batch, loc, pbar, files, dirs, err,
                    at_batch_start >>

\* lines 117-118: raise NotImplementedError("Only XL models are supported")
RaiseNotImplemented ==
    /\ pc = "assemble"
    /\ ~model_config.is_xl
    /\ Propagate("NotImplementedError")
    /\ UNCHANGED << files, dirs >>

\* lines 124-128: the data loader, batch size 1, and the progress bar
GetDataLoader ==
    /\ pc = "get_dataloader"
    /\ data_loader' = datasets
    /\ pbar' = 0
    /\ log' = Logged("get_dataloader", None)
    /\ pc' = "next_batch"
    /\ UNCHANGED << config, sd, pipe, i, batch, loc, files, dirs, err, at_batch_start >>

\* line 130: the loop takes the next batch
NextBatch ==
    /\ pc = "next_batch"
    /\ i < Len(data_loader)
    /\ i' = i + 1
    /\ batch' = [path |-> data_loader[i + 1].path,
                 caption |-> data_loader[i + 1].caption,
                 tensor |-> data_loader[i + 1].tensor,
                 released |-> 0]
    /\ loc' = NoLocals
    /\ at_batch_start' = files
    /\ log' = Append(log, [op |-> "next_batch", item |-> i + 1, path |-> None,
                            data |-> NoContent])
    /\ pc' = "prepare"
    /\ UNCHANGED << config, sd, pipe, data_loader, pbar, files, dirs, err >>

\* line 130: the loader is exhausted
LoopExit ==
    /\ pc = "next_batch"
    /\ i = Len(data_loader)
    /\ pc' = "pbar_close"
    /\ UNCHANGED << config, sd, pipe, data_loader, i, batch, loc, pbar, files, dirs,
                    err, log, at_batch_start >>

\* lines 133-153: paths, caption and input image of the item
PrepareItem ==
    /\ pc = "prepare"
    /\ loc' = [output_path |->
                   OutputPath(output_folder, batch.path, generate_config.ext),
               output_caption_path |-> OutputCaptionPath(output_folder, batch.path),
               output_inputs_path |->
                   OutputInputsPath(copy_inputs_to, batch.path, generate_config.ext),
               output_inputs_caption_path |->
                   OutputInputsCaptionPath(copy_inputs_to, batch.path),
               caption |-> SubstituteTrigger(batch.caption, generate_config.trigger_word),
               image |-> to_pil(batch.tensor),
               gen_images |-> NoImage]
    /\ pc' = "pipe_call"
    /\ UNCHANGED << config, sd, pipe, data_loader, i, batch, pbar, files, dirs, err,
                    log, at_batch_start >>

\* lines 159-166
PipeCall ==
    /\ pc = "pipe_call"
    /\ pipe
    /\ loc' = [loc EXCEPT !.gen_images = PipeCallResult(loc.caption, loc.image)]
    /\ log' = Logged("pipe_call", None)
    /\ pc' = "makedirs"
    /\ UNCHANGED << config, sd, pipe, data_loader, i, batch, pbar, files, dirs, err,
                    at_batch_start >>

\* line 167: os.makedirs(os.path.dirname(output_path), exist_ok=True)
MakeOutputDir ==
    /\ pc = "makedirs"
    /\ dirname(loc.output_path) # << >>
    /\ ~BlockedByFile(files, dirname(loc.output_path))
    /\ dirs' = makedirs(dirs, dirname(loc.output_path))
    /\ log' = Logged("makedirs", dirname(loc.output_path))
    /\ pc' = "save"
    /\ UNCHANGED << config, sd, pipe, data_loader, i, batch, loc, pbar, files, err,
                    at_batch_start >>

\* line 168: gen_images.save(output_path)
SaveGenerated ==
    /\ pc = "save"
    /\ loc.output_path \notin dirs
    /\ files' = Put(files, loc.output_path, ImageFile(loc.gen_images))
    /\ log' = Wrote("save", loc.output_path, ImageFile(loc.gen_images))
    /\ pc' = "write_caption"
    /\ UNCHANGED << config, sd, pipe, data_loader, i, batch, loc, pbar, dirs, err,
                    at_batch_start >>

\* the step after line 172: lines 174-178 run only when output_inputs_path is set
AfterCaption == IF loc.output_inputs_path # None THEN "makedirs_inputs" ELSE "pbar_update"

\* lines 171-172: the caption file
WriteCaption ==
    /\ pc = "write_caption"
    /\ loc.output_caption_path \notin dirs
    /\ files' = Put(files, loc.output_caption_path, TextFile(loc.caption))
    /\ log' = Wrote("write_caption", loc.output_caption_path, TextFile(loc.caption))
    /\ pc' = AfterCaption
    /\ UNCHANGED << config, sd, pipe, data_loader, i, batch, loc, pbar, dirs, err,
                    at_batch_start >>

\* line 175: os.makedirs(os.path.dirname(output_inputs_path), exist_ok=True)
MakeInputsDir ==
    /\ pc = "makedirs_inputs"
    /\ dirname(loc.output_inputs_path) # << >>
    /\ ~BlockedByFile(files, dirname(loc.output_inputs_path))
    /\ dirs' = makedirs(dirs, dirname(loc.output_inputs_path))
    /\ log' = Logged("makedirs_inputs", dirname(loc.output_inputs_path))
    /\ pc' = "save_input"
    /\ UNCHANGED << config, sd, pipe, data_loader, i, batch, loc, pbar, files, err,
                    at_batch_start >>

\* line 176: image.save(output_inputs_path)
SaveInput ==
    /\ pc = "save_input"
    /\ loc.output_inputs_path \notin dirs
    /\ files' = Put(files, loc.output_inputs_path, ImageFile(loc.image))
    /\ log' = Wrote("save_input", loc.output_inputs_path, ImageFile(loc.image))
    /\ pc' = "write_inputs_caption"
    /\ UNCHANGED << config, sd, pipe, data_loader, i, batch, loc, pbar, dirs, err,
                    at_batch_start >>

\* WriteInputsCaption, had the caption of the batch been written as it came
WriteInputsCaptionRaw ==
    /\ pc = "write_inputs_caption"
    /\ loc.output_inputs_caption_path \notin dirs
    /\ files' = Put(files, loc.output_inputs_caption_path, TextFile(batch.caption))
    /\ log' = Wrote("write_inputs_caption", loc.output_inputs_caption_path,
                     TextFile(batch.caption))
    /\ pc' = "pbar_update"
    /\ UNCHANGED << config, sd, pipe, data_loader, i, batch, loc, pbar, dirs, err,
                    at_batch_start >>

\* lines 177-178: the mirrored caption file
WriteInputsCaption ==
    /\ pc = "write_inputs_caption"
    /\ loc.output_inputs_caption_path \notin dirs
    /\ files' = Put(files, loc.output_inputs_caption_path, TextFile(loc.caption))
    /\ log' = Wrote("write_inputs_caption", loc.output_inputs_caption_path,
                     TextFile(loc.caption))
    /\ pc' = "pbar_update"
    /\ UNCHANGED << config, sd, pipe, data_loader, i, batch, loc, pbar, dirs, err,
                    at_batch_start >>

\* PbarUpdate, had the loop gone on to the next batch without releasing this one
PbarUpdateNoRelease ==
    /\ pc = "pbar_update"
    /\ pbar' = pbar + 1
    /\ log' = Logged("pbar_update", None)
    /\ pc' = "next_batch"
    /\ UNCHANGED << config, sd, pipe, data_loader, i, batch, loc, files, dirs, err,
                    at_batch_start >>

\* line 180: pbar.update(1)
PbarUpdate ==
    /\ pc = "pbar_update"
    /\ pbar' = pbar + 1
    /\ log' = Logged("pbar_update", None)
    /\ pc' = "batch_cleanup"
    /\ UNCHANGED << config, sd, pipe, data_loader, i, batch, loc, files, dirs, err,
                    at_batch_start >>

\* line 181: batch.cleanup(), then back to line 130
BatchCleanup ==
    /\ pc = "batch_cleanup"
    /\ batch' = [batch EXCEPT !.released = @ + 1]
    /\ log' = Logged("batch_cleanup", None)
    /\ pc' = "next_batch"
    /\ UNCHANGED << config, sd, pipe, data_loader, i, loc, pbar, files, dirs, err,
                    at_batch_start >>

\* lines 183-184: pbar.close()
PbarClose ==
    /\ pc = "pbar_close"
    /\ log' = Logged("pbar_close", None)
    /\ pc' = "cleanup"
    /\ UNCHANGED << config, sd, pipe, data_loader, i, batch, loc, pbar, files, dirs,
                    err, at_batch_start >>

\* lines 186-188: del self.sd; gc.collect(); torch.cuda.empty_cache()
Cleanup ==
    /\ pc = "cleanup"
    /\ sd' = "deleted"
    /\ log' = Logged("cleanup", None)
    /\ pc' = "done"
    /\ UNCHANGED << config, pipe, data_loader, i, batch, loc, pbar, files, dirs, err,
                    at_batch_start >>

-----------------------------------------------------------------------------
(* Failures: nothing in run() catches an exception, so it leaves run() *)

\* lines 159-166: the pipeline call raises
FailPipeCall ==
    /\ pc = "pipe_call"
    /\ Propagate("PipelineError")
    /\ UNCHANGED << files, dirs >>

\* the directory argument of the makedirs at pc (line 167 or 175)
MakedirsTarget ==
    IF pc = "makedirs" THEN dirname(loc.output_path) ELSE dirname(loc.output_inputs_path)

\* lines 167, 175: os.makedirs raises, having made none or some of the missing
\* directories; it cannot raise when the directory is already there
FailMakedirs ==
    /\ pc \in {"makedirs", "makedirs_inputs"}
    /\ LET missing == makedirs(dirs, MakedirsTarget) \ dirs
       IN  /\ missing # {} \/ BlockedByFile(files, MakedirsTarget)
           /\ \E n \in 0..Max({0, Cardinality(missing) - 1}) :
                 dirs' = dirs \cup PartlyMade(dirs, MakedirsTarget, n)
    /\ Propagate("OSError")
    /\ UNCHANGED files

\* the path the write at pc is writing
WriteTarget ==
    CASE pc = "save" -> loc.output_path
      [] pc = "write_caption" -> loc.output_caption_path
      [] pc = "save_input" -> loc.output_inputs_path
      [] pc = "write_inputs_caption" -> loc.output_inputs_caption_path

\* FailedWrite, had the output of a failed write been cleaned up
FailedWriteRemoves(fs, path, opened) == [q \in DOMAIN fs \ {path} |-> fs[q]]

\* what a failed write leaves: nothing touched (the open failed, or the library
\* removed the file it had just created), or the file opened and cut short
FailedWrite(fs, path, opened) == IF opened THEN Put(fs, path, PartialFile) ELSE fs

\* lines 168, 176: Image.save raises
FailSave ==
    /\ pc \in {"save", "save_input"}
    /\ \E opened \in {b \in BOOLEAN : b => WriteTarget \notin dirs} :
          files' = FailedWrite(files, WriteTarget, opened)
    /\ Propagate("OSError")
    /\ UNCHANGED dirs

\* lines 171-172, 177-178: open(..., 'w') or f.write raises
FailWrite ==
    /\ pc \in {"write_caption", "write_inputs_caption"}
    /\ \E opened \in {b \in BOOLEAN : b => WriteTarget \notin dirs} :
          files' = FailedWrite(files, WriteTarget, opened)
    /\ Propagate("OSError")
    /\ UNCHANGED dirs

-----------------------------------------------------------------------------

Next ==
    \/ LoadModel
    \/ AssemblePipeline
    \/ RaiseNotImplemented
    \/ GetDataLoader
    \/ NextBatch
    \/ LoopExit
    \/ PrepareItem
    \/ PipeCall
    \/ MakeOutputDir
    \/ SaveGenerated
    \/ WriteCaption
    \/ MakeInputsDir
    \/ SaveInput
    \/ WriteInputsCaption
    \/ PbarUpdate
    \/ BatchCleanup
    \/ PbarClose
    \/ Cleanup
    \/ FailPipeCall
    \/ FailMakedirs
    \/ FailSave
    \/ FailWrite

Spec == Init /\ [][Next]_vars

-----------------------------------------------------------------------------
(* Vocabulary of the properties, stated without the operators of the model *)

\* the history entries of operation op
Entries(op) == {k \in 1..Len(log) : log[k].op = op}

\* the part of a path after its last "/"
BaseNameOf(p) ==
    CHOOSE b \in {SubSeq(p, k, Len(p)) : k \in 1..(Len(p) + 1)} :
        /\ \A j \in 1..Len(b) : b[j] # "/"
        /\ Len(b) = Len(p) \/ p[Len(p) - Len(b)] = "/"

\* a file name with its last extension removed; the dots a name begins with
\* start no extension
StemOf(name) ==
    LET dots == {k \in 1..Len(name) :
                    name[k] = "." /\ \E j \in 1..(k - 1) : name[j] # "."}
    IN  IF dots = {} THEN name ELSE SubSeq(name, 1, Max(dots) - 1)

\* p is the directory d or lies below it
Inside(p, d) == p = d \/ StartsWith(p, d \o << "/" >>)

\* p is an entry of the directory d itself
DirectlyIn(p, d) ==
    /\ StartsWith(p, d \o << "/" >>)
    /\ LET name == SubSeq(p, Len(d) + 2, Len(p))
       IN  /\ name \notin {<< >>, << "." >>, << ".", "." >>}
           /\ \A j \in 1..Len(name) : name[j] # "/"

\* sub occurs in s
Contains(s, sub) ==
    \E k \in 1..(Len(s) - Len(sub) + 1) : SubSeq(s, k, k + Len(sub) - 1) = sub

-----------------------------------------------------------------------------
(* C1 *)

\* C1: with a model configuration that is not XL, run() can only end by raising
\* NotImplementedError at pipeline assembly: it never gets past assembly, it is
\* never stuck before it, and when it has failed the model is loaded, no batch
\* has been requested, the pipeline was never called and nothing was written.
C1_NonXLFailsAtAssembly ==
    ~model_config.is_xl =>
        /\ pc \in {"load_model", "assemble", "aborted"}
        /\ pc # "aborted" => ENABLED Next
        /\ pc = "aborted" =>
              /\ err = << "NotImplementedError", "assemble" >>
              /\ sd = "loaded"
              /\ ~pipe
              /\ data_loader = None /\ i = 0 /\ batch = NoBatch
              /\ Entries("next_batch") = {} /\ Entries("pipe_call") = {}
              /\ files = << >> /\ dirs = {}

\* a non-XL run with items to process has failed
C1_Witness ==
    /\ ~model_config.is_xl
    /\ Len(datasets) = MaxItems
    /\ pc = "aborted"

-----------------------------------------------------------------------------
(* C2 *)

\* C2 as stated: with copy_inputs_to unset, every file and every directory that
\* run() made lies inside output_folder.
C2_Original ==
    copy_inputs_to = None =>
        /\ \A f \in DOMAIN files : Inside(f, output_folder)
        /\ \A d \in dirs : Inside(d, output_folder)

\* C2, amended: with copy_inputs_to unset, every file run() wrote is an entry of
\* output_folder, and every directory it made is output_folder or one of the
\* directories output_folder lies in.
C2_WritesStayInOutputFolder ==
    copy_inputs_to = None =>
        /\ \A f \in DOMAIN files : DirectlyIn(f, output_folder)
        /\ \A k \in 1..Len(log) :
              log[k].data # NoContent => DirectlyIn(log[k].path, output_folder)
        /\ \A d \in dirs : d = output_folder \/ Inside(output_folder, d)

\* a finished run without copy_inputs_to into a nested output folder, from a
\* source file that lies in a directory of its own
C2_Witness ==
    /\ copy_inputs_to = None
    /\ output_folder = FolderPO
    /\ pc = "done"
    /\ Len(datasets) = MaxItems
    /\ \A k \in 1..Len(datasets) : Contains(datasets[k].path, << "/" >>)
    /\ Cardinality(DOMAIN files) >= 2
    /\ dirs = {<< "p" >>, FolderPO}

-----------------------------------------------------------------------------
(* C3 *)

\* C3: every generated image is written to <output_folder>/<stem>.<ext> and every
\* caption to <output_folder>/<stem>.txt, where stem is the base name of the
\* item's source path without its last extension and ext is generate.ext; and
\* each item that reached the next step has had both written.
C3_OutputNames ==
    /\ \A k \in Entries("save") :
          log[k].path = output_folder \o << "/" >>
                          \o StemOf(BaseNameOf(datasets[log[k].item].path))
                          \o << "." >> \o generate_config.ext
    /\ \A k \in Entries("write_caption") :
          log[k].path = output_folder \o << "/" >>
                          \o StemOf(BaseNameOf(datasets[log[k].item].path))
                          \o << ".", "t", "x", "t" >>
    /\ pc \in {"pbar_update", "batch_cleanup"} =>
          /\ \E k \in Entries("save") : log[k].item = i
          /\ \E k \in Entries("write_caption") : log[k].item = i

\* an item whose name begins with a dot and has an extension has been written:
\* .a.a has the stem .a
C3_Witness ==
    /\ pc = "done"
    /\ Len(datasets) = 1
    /\ datasets[1].path = << ".", "a", ".", "a" >>
    /\ generate_config.ext = PNG
    /\ \E k \in Entries("save") : log[k].path = << "o", "/", ".", "a", ".", "p", "n", "g" >>

-----------------------------------------------------------------------------
(* C4 *)

\* the history entries that wrote a caption file
CaptionWrites == Entries("write_caption") \cup Entries("write_inputs_caption")

\* r is c with each occurrence of the placeholder replaced by w and everything
\* else kept in place (the placeholder cannot overlap itself)
IsReplacement(c, w, r) ==
    LET n        == Len(PLACEHOLDER)
        occ      == {k \in 1..(Len(c) - n + 1) : SubSeq(c, k, k + n - 1) = PLACEHOLDER}
        shift(j) == Cardinality({k \in occ : k < j}) * (Len(w) - n)
    IN  /\ Len(r) = Len(c) + Cardinality(occ) * (Len(w) - n)
        /\ \A j \in 1..Len(c) :
              (\A k \in occ : j < k \/ j >= k + n) => r[j + shift(j)] = c[j]
        /\ \A k \in occ : SubSeq(r, k + shift(k), k + shift(k) + Len(w) - 1) = w

\* a trigger word that cannot complete a placeholder with the text around it:
\* not empty, without "[" and "]", and no part of the word "trigger"
PlainWord(w) ==
    /\ w # << >>
    /\ \A j \in 1..Len(w) : w[j] \notin {"[", "]"}
    /\ ~Contains(SubSeq(PLACEHOLDER, 2, Len(PLACEHOLDER) - 1), w)

\* C4 as stated: with a trigger word configured no written caption contains the
\* placeholder, whatever the caption and the trigger word; without one the
\* caption is written verbatim.
C4_Original ==
    \A k \in CaptionWrites :
        IF generate_config.trigger_word # None
        THEN ~Contains(log[k].data.text, PLACEHOLDER)
        ELSE log[k].data.text = datasets[log[k].item].caption

\* C4, amended: with a trigger word configured every written caption is the
\* item's caption with each occurrence of the placeholder replaced by the
\* trigger word, and it contains no placeholder when the trigger word is not
\* empty, has no "[" or "]" and is no part of the word "trigger"; without a
\* trigger word the caption is written verbatim.
C4_TriggerReplaced ==
    \A k \in CaptionWrites :
        /\ log[k].data.kind = "text"
        /\ IF generate_config.trigger_word # None
           THEN /\ IsReplacement(datasets[log[k].item].caption,
                                 generate_config.trigger_word, log[k].data.text)
                /\ PlainWord(generate_config.trigger_word) =>
                      ~Contains(log[k].data.text, PLACEHOLDER)
           ELSE log[k].data.text = datasets[log[k].item].caption

\* a caption with two placeholders, and text around them that a trigger word
\* could complete, has been written with the trigger word "orange"
C4_Witness ==
    /\ generate_config.trigger_word = << "o", "r", "a", "n", "g", "e" >>
    /\ Len(datasets) = 1
    /\ datasets[1].caption = << "[", "t" >> \o PLACEHOLDER \o PLACEHOLDER
    /\ \E k \in Entries("write_caption") :
          log[k].data.text = << "[", "t", "o", "r", "a", "n", "g", "e",
                                "o", "r", "a", "n", "g", "e" >>

-----------------------------------------------------------------------------
(* C5 *)

\* C5 as stated: when an item's iteration has completed, the output image file
\* holds the image the pipeline generated for the item and, with copy_inputs_to
\* set, the mirrored image file holds the input image, whatever output_folder
\* and copy_inputs_to are.
C5_Original ==
    (pc = "next_batch" /\ i >= 1) =>
        /\ loc.output_path \in DOMAIN files
        /\ files[loc.output_path] = ImageFile(loc.gen_images)
        /\ loc.gen_images.origin = "pipe"
        /\ copy_inputs_to # None =>
              /\ loc.output_inputs_path \in DOMAIN files
              /\ files[loc.output_inputs_path] = ImageFile(loc.image)

-----------------------------------------------------------------------------
(* C6 *)

\* the caption files of item k are there and hold the same text
CaptionsAgree(k) ==
    LET primary == output_folder \o << "/" >>
                     \o StemOf(BaseNameOf(datasets[k].path)) \o << ".", "t", "x", "t" >>
        mirror  == copy_inputs_to \o << "/" >>
                     \o StemOf(BaseNameOf(datasets[k].path)) \o << ".", "t", "x", "t" >>
    IN  /\ primary \in DOMAIN files
        /\ mirror \in DOMAIN files
        /\ files[primary].kind = "text"
        /\ files[mirror] = files[primary]
        /\ k = i => files[primary].text = loc.caption

-----------------------------------------------------------------------------
(* C7 *)

\* the history entries of the writes item k completed
WritesOf(k) == {n \in 1..Len(log) : log[n].item = k /\ log[n].data # NoContent}

\* the file the step that raised was writing, if it was a write
FailedTargets ==
    IF err[2] \in {"save", "write_caption", "save_input", "write_inputs_caption"}
    THEN {loc[CASE err[2] = "save" -> "output_path"
                [] err[2] = "write_caption" -> "output_caption_path"
                [] err[2] = "save_input" -> "output_inputs_path"
                [] err[2] = "write_inputs_caption" -> "output_inputs_caption_path"]}
    ELSE {}

\* a step of item i raised: run() has stopped for good, no later item was
\* requested, no step of the item ran twice and the step that raised is not
\* among those that completed
AbortedAtItem ==
    /\ pc = "aborted"
    /\ ~ENABLED Next
    /\ Cardinality(Entries("next_batch")) = i
    /\ \A n \in 1..Len(log) : log[n].item <= i
    /\ \A m, n \in 1..Len(log) :
          (log[m].item = i /\ log[n].item = i /\ log[m].op = log[n].op) => m = n
    /\ \A n \in 1..Len(log) : log[n].item = i => log[n].op # err[2]

\* C7 as stated: when a step of item k fails the run aborts, nothing is retried,
\* and every file written for the items before k, and every file item k wrote
\* before the failing step, is on disk unchanged. It is stated here for the runs
\* whose copy_inputs_to is not output_folder, in which the steps of one item
\* write to different paths.
C7_Original ==
    (err # None /\ i >= 1 /\ copy_inputs_to # output_folder) =>
        /\ AbortedAtItem
        /\ \A f \in DOMAIN at_batch_start :
              f \in DOMAIN files /\ files[f] = at_batch_start[f]
        /\ \A n \in WritesOf(i) :
              log[n].path \in DOMAIN files /\ files[log[n].path] = log[n].data

\* C7, amended: when a step of item k fails the run aborts, nothing is retried
\* and nothing is removed: every file that was on disk when item k began is
\* still there, unchanged unless item k wrote to the same path or its failing
\* step was writing it; every file item k wrote is there, holding what item k
\* last wrote to it unless the failing step was writing to it.
C7_AbortKeepsFiles ==
    (err # None /\ i >= 1) =>
        /\ AbortedAtItem
        /\ \A f \in DOMAIN at_batch_start :
              /\ f \in DOMAIN files
              /\ f \notin {log[n].path : n \in WritesOf(i)} \cup FailedTargets =>
                    files[f] = at_batch_start[f]
        /\ \A n \in WritesOf(i) :
              /\ log[n].path \in DOMAIN files
              /\ (/\ log[n].path \notin FailedTargets
                  /\ \A m \in WritesOf(i) : m > n => log[m].path # log[n].path) =>
                    files[log[n].path] = log[n].data

\* the second of two items with the same stem failed at its last write, cut short,
\* after the first item had completed
C7_Witness ==
    /\ err = << "OSError", "write_inputs_caption" >>
    /\ i = 2
    /\ output_folder = FolderPO
    /\ copy_inputs_to = FolderC
    /\ StemOf(BaseNameOf(datasets[1].path)) = StemOf(BaseNameOf(datasets[2].path))
    /\ files[loc.output_inputs_caption_path] = PartialFile
    /\ Cardinality(DOMAIN files) = 4

-----------------------------------------------------------------------------
(* C8 *)

\* C8: to_pil gives an image of one row-major pixel array with the channels last,
\* in which a tensor value 0 has become 127, a value of -1 or below 0, a value
\* of 1 or above 255, and every value lies in 0..255.
C8_ToPil ==
    loc.image # NoImage =>
        /\ loc.image.origin = "to_pil"
        /\ DOMAIN loc.image.pixels = DOMAIN batch.tensor[1][1]
        /\ \A h \in DOMAIN loc.image.pixels :
              /\ DOMAIN loc.image.pixels[h] = DOMAIN batch.tensor[1][1][h]
              /\ \A w \in DOMAIN loc.image.pixels[h] :
                    /\ DOMAIN loc.image.pixels[h][w] = DOMAIN batch.tensor[1]
                    /\ \A c \in DOMAIN loc.image.pixels[h][w] :
                          LET v  == batch.tensor[1][c][h][w]
                              px == loc.image.pixels[h][w][c]
                          IN  /\ px \in 0..255
                              /\ v = 0 => px = 127
                              /\ v <= 0 - Den => px = 0
                              /\ v >= Den => px = 255

\* a tensor with a value below -1, a zero and a value above 1 has been converted
C8_Witness ==
    /\ batch.tensor = Tensor3(0 - TensorRange, 0, TensorRange)
    /\ TensorRange > Den
    /\ loc.image.pixels = << << << 0, 127, 255 >> >> >>

-----------------------------------------------------------------------------
(* C9 *)

\* the operation that comes right before op in run()
PrecedingOp(op, item) ==
    CASE op = "load_model" -> "none"
      [] op = "assemble" -> "load_model"
      [] op = "get_dataloader" -> "assemble"
      [] op = "next_batch" -> IF item = 1 THEN "get_dataloader" ELSE "batch_cleanup"
      [] op = "pipe_call" -> "next_batch"
      [] op = "makedirs" -> "pipe_call"
      [] op = "save" -> "makedirs"
      [] op = "write_caption" -> "save"
      [] op = "makedirs_inputs" -> "write_caption"
      [] op = "save_input" -> "makedirs_inputs"
      [] op = "write_inputs_caption" -> "save_input"
      [] op = "pbar_update" ->
            IF copy_inputs_to = None THEN "write_caption" ELSE "write_inputs_caption"
      [] op = "batch_cleanup" -> "pbar_update"
      [] op = "pbar_close" -> IF item = 0 THEN "get_dataloader" ELSE "batch_cleanup"
      [] op = "cleanup" -> "pbar_close"

-----------------------------------------------------------------------------
(* C10 *)

\* C10: the end-of-run cleanup happens at most once, as the last thing run()
\* does, after every batch of the loader has been requested, processed and
\* released; the model wrapper is dropped by it and by nothing else; a run that
\* has completed has done it, a run that aborted has not.
C10_CleanupOnceAtEnd ==
    /\ Cardinality(Entries("cleanup")) <= 1
    /\ \A n \in Entries("cleanup") :
          /\ n = Len(log)
          /\ i = Len(datasets)
          /\ Cardinality(Entries("batch_cleanup")) = Len(datasets)
          /\ Cardinality(Entries("pipe_call")) = Len(datasets)
    /\ sd = "deleted" <=> Entries("cleanup") # {}
    /\ pc = "done" <=> Entries("cleanup") # {}
    /\ pc = "aborted" => Entries("cleanup") = {} /\ sd # "deleted"

\* a run of MaxItems batches has completed and cleaned up
C10_Witness ==
    /\ pc = "done"
    /\ sd = "deleted"
    /\ Len(datasets) = MaxItems
    /\ Cardinality(Entries("pipe_call")) = MaxItems
    /\ log[Len(log)].op = "cleanup"

=============================================================================
